---------------------------- MODULE Spec2Model ----------------------------
(***************************************************************************)
(* A state-machine model of the vhost-user-input backend (src/src/main.rs).*)
(*                                                                         *)
(* The backend object lives in an Arc<RwLock<..>> (main.rs:337): methods   *)
(* taking &self (handle_event, get_config) run under a shared borrow,      *)
(* methods taking &mut self (set_event_idx, update_memory, set_config)     *)
(* under an exclusive one.  Inside it, the worker state sits behind        *)
(* `thread: Mutex<VhostUserInputThread>` and every vring behind its own    *)
(* RwLock.  handle_event is modelled statement by statement so that        *)
(* other callers, the guest driver and the input source interleave with it.*)
(***************************************************************************)
EXTENDS Integers, Sequences, FiniteSets, TLC

(* ------------------------------ bounds --------------------------------- *)

\* largest queue count a backend is constructed with
MaxQueues == 2

\* descriptor chains the guest driver submits, over all queues
MaxChains == 2

\* synthetic input events written to the input eventfd
MaxInputs == 1

\* transport threads that may be inside handle_event at the same time
Workers == {"w1", "w2"}

\* guest-memory handles the transport passes to update_memory
MemHandles == {"m1", "m2"}

(* --------------------------- program constants -------------------------- *)

None == "none"

EPOLLIN == "EPOLLIN"
EPOLLOUT == "EPOLLOUT"

\* the notification kinds a kick is delivered with
Events == {EPOLLIN, EPOLLOUT}

\* enum Error: the two variants handle_event returns
HandleEventNotEpollIn == "HandleEventNotEpollIn"
HandleEventUnknownEvent == "HandleEventUnknownEvent"

\* queue depths a backend is constructed with
QueueSizes == {1, MaxChains}

\* main.rs:48-53  the config selectors the device names
VIRTIO_INPUT_CFG_ID_NAME == 1
VIRTIO_INPUT_CFG_ID_SERIAL == 2
VIRTIO_INPUT_CFG_ID_DEVIDS == 3
VIRTIO_INPUT_CFG_PROP_BITS == 16
VIRTIO_INPUT_CFG_EV_BITS == 17
VIRTIO_INPUT_CFG_ABS_INFO == 18

\* main.rs:74-85  size_of::<VirtioInputConfig>(), a packed struct: select,
\* subsel, size, reserved[5], string[128] of 4-byte chars, bitmap[128],
\* abs (five u32), ids (four u16)
ConfigSize == 3 + 5 + 128 * 4 + 128 + 5 * 4 + 4 * 2

\* (offset, size) pairs get_config is called with: the three header bytes,
\* header and 128-byte payload, and one byte past the struct
ReadArgs == {<<0, 3>>, <<0, 131>>, <<ConfigSize, 1>>}

\* (offset, buf) pairs set_config is called with: a selection the device
\* names, one it does not, a byte aimed at the size field, and a write that
\* starts inside the struct and ends past it
WriteArgs ==
    {<<0, <<VIRTIO_INPUT_CFG_ID_NAME, 0>>>>,
     <<0, <<4, 1>>>>,
     <<2, <<200>>>>,
     <<ConfigSize - 1, <<1, 1>>>>}

VARIABLES
    num_queues,      \* VhostUserInputBackend.num_queues
    queue_size,      \* VhostUserInputBackend.queue_size
    threads,         \* transport threads that deliver kicks
    event_idx,       \* VhostUserInputThread.event_idx
    config,          \* VhostUserInputBackend.config
    thread_lock,     \* holder of the Mutex around VhostUserInputThread
    vring_lock,      \* per queue: holder of the vring's write lock
    backend_readers, \* callers holding a shared borrow of the backend
    avail,           \* per queue: chains made available, not yet taken
    taken,           \* per queue: chains the device took, in order
    used,            \* per queue: chains published in the used ring
    signalled,       \* per queue: used-buffer notifications sent to the guest
    delivered,       \* per queue: chains an InputEvent was written into
    submitted,       \* number of chains the guest submitted so far
    sim_inputs,      \* counter of the synthetic-input eventfd (pending events)
    sim_written,     \* events ever written to the synthetic-input eventfd
    pc,              \* per worker: position inside handle_event
    call,            \* per worker: arguments and locals of its handle_event
    cfg_op,          \* the last config call: its arguments and what it returned
    last_write,      \* the arguments of the last set_config call, and whether
                     \* the call before it had the same
    cfg_reads,       \* per ReadArgs: the results seen since the selection changed
    mem_given,       \* the handle of the last update_memory call
    offered,         \* the feature words features() has returned so far
    kill_evt,        \* counter of VhostUserInputThread.kill_evt
    main_pc,         \* position of main: in daemon.wait(), past the write
                     \* to kill_evt, or after process::exit
    short            \* chains with no writable segment of 8 bytes

ctor == <<num_queues, queue_size, threads>>

locks == <<thread_lock, vring_lock, backend_readers>>

rings == <<avail, taken, used, signalled, delivered, submitted>>

source == <<sim_inputs, sim_written>>

cfg == <<config, cfg_op, last_write, cfg_reads>>

host == <<mem_given, offered, kill_evt, main_pc, short>>

vars == <<ctor, event_idx, locks, rings, source, pc, call, cfg, host>>

Queues == 0 .. (num_queues - 1)

AllQueues == 0 .. (MaxQueues - 1)

\* queue indices a kick may carry: every real queue and one past the last
DeviceEvents == 0 .. MaxQueues

(* ------------------------------ helpers -------------------------------- *)

\* Result<bool>: the value handle_event hands back on success
Ok(b) == IF b THEN "Ok(true)" ELSE "Ok(false)"

\* the array expression [value; count]: count elements, all equal to value
Repeat(value, count) == [value |-> value, count |-> count]

\* struct VirtioInputConfig as VhostUserInputBackend::new fills it
InitialConfig ==
    [select   |-> 0,
     subsel   |-> 0,
     size     |-> 0,
     reserved |-> Repeat(0, 5),
     string   |-> Repeat("x", 128),
     bitmap   |-> Repeat(0, 128),
     abs      |-> [min |-> 0, max |-> 0, fuzz |-> 0, flat |-> 0, res |-> 0],
     ids      |-> [bustype |-> 0, vendor |-> 0, product |-> 0, version |-> 0]]

\* locals of a handle_event call that has not started
IdleCall ==
    [dev      |-> 0,
     evset    |-> EPOLLIN,
     idx0     |-> FALSE,
     mode     |-> FALSE,
     used_any |-> FALSE,
     passes   |-> 0,
     took     |-> <<>>,
     late     |-> {},
     missed   |-> {},
     taken0   |-> 0,
     pend0    |-> 0,
     kill0    |-> 0,
     ret      |-> None]

\* no config call made yet
NoConfigCall ==
    [op |-> None, offset |-> 0, len |-> 0, buf |-> <<>>, bytes |-> <<>>,
     status |-> None, changed |-> FALSE, again |-> FALSE]

NoWrite == [offset |-> -1, buf |-> <<>>, repeated |-> FALSE]

\* events removed from the synthetic-input eventfd so far
EventsTaken == sim_written - sim_inputs

(* ------------------------------- Init ---------------------------------- *)

\* VhostUserInputBackend::new and VhostUserInputThread::new, for a given
\* queue count, queue depth and set of transport threads
Construct(nq, qs, ths) ==
    /\ num_queues = nq
    /\ queue_size = qs
    /\ threads = ths
    /\ event_idx = FALSE
    /\ config = InitialConfig
    /\ thread_lock = None
    /\ vring_lock = [q \in AllQueues |-> None]
    /\ backend_readers = {}
    /\ avail = [q \in AllQueues |-> <<>>]
    /\ taken = [q \in AllQueues |-> <<>>]
    /\ used = [q \in AllQueues |-> <<>>]
    /\ signalled = [q \in AllQueues |-> 0]
    /\ delivered = [q \in AllQueues |-> {}]
    /\ submitted = 0
    /\ sim_inputs = 0
    /\ sim_written = 0
    /\ pc = [w \in Workers |-> "idle"]
    /\ call = [w \in Workers |-> IdleCall]
    /\ cfg_op = NoConfigCall
    /\ last_write = NoWrite
    /\ cfg_reads = [a \in ReadArgs |-> {}]
    /\ mem_given = None
    /\ offered = {}
    /\ kill_evt = 0
    /\ main_pc = "wait"
    /\ short = {}

Init == \E nq \in 1 .. MaxQueues, qs \in QueueSizes : Construct(nq, qs, Workers)

(* --------------------------- the environment --------------------------- *)

\* The guest driver makes one more descriptor chain available on queue q.
\* A chain stays with the device until it is published as used, so at most
\* queue_size chains of a queue are outstanding.  A kick that is between the
\* end of a process_queue pass on this queue and its next statement notes the
\* chain: in `late` when that pass took a chain, in `missed` when it took none.
SubmitChain(q) ==
    /\ q \in Queues
    /\ submitted < MaxChains
    /\ Len(avail[q]) + Len(taken[q]) - Len(used[q]) < queue_size
    /\ submitted' = submitted + 1
    /\ avail' = [avail EXCEPT ![q] = Append(@, submitted + 1)]
    /\ call' = [w \in Workers |->
                  IF q = 0 /\ pc[w] = "passed"
                  THEN IF call[w].used_any
                       THEN [call[w] EXCEPT !.late = @ \cup {submitted + 1}]
                       ELSE [call[w] EXCEPT !.missed = @ \cup {submitted + 1}]
                  ELSE call[w]]
    /\ UNCHANGED <<ctor, event_idx, locks, taken, used, signalled, delivered,
                   source, pc, cfg>>

\* a chain with a writable segment of at least 8 bytes
GuestAddChain(q) ==
    /\ SubmitChain(q)
    /\ UNCHANGED host

\* a chain whose writable segments are all shorter than one VirtioInputEvent
GuestAddShortChain(q) ==
    /\ SubmitChain(q)
    /\ short' = short \cup {submitted + 1}
    /\ UNCHANGED <<mem_given, offered, kill_evt, main_pc>>

\* The input source writes one synthetic event to the eventfd main creates.
SimInput ==
    /\ sim_written < MaxInputs
    /\ sim_written' = sim_written + 1
    /\ sim_inputs' = sim_inputs + 1
    /\ UNCHANGED <<ctor, host, event_idx, locks, rings, pc, call, cfg>>

(* ----------------------------- handle_event ---------------------------- *)

\* the notification-kind check left out
EvsetRejected_Never(evset) == FALSE

\* main.rs:219  if evset != epoll::Events::EPOLLIN
EvsetRejected(evset) == evset # EPOLLIN

\* main.rs:225-241  match device_event { 0 => .., _ => Err(..) }
QueueMatched(device_event) == device_event = 0

\* the result of the last process_queue pass handed back instead of false
HandleEventValue_UsedAny(used_any) == used_any

\* main.rs:239  the value of the successful arm; used_any is the result of
\* the last process_queue pass, which the code drops
HandleEventValue(used_any) == FALSE

\* A transport thread enters handle_event (shared borrow of the backend) and
\* runs the notification-kind check of main.rs:219-221.
HandleEvent_Check(w, device_event, evset) ==
    /\ w \in threads
    /\ pc[w] = "idle"
    /\ backend_readers' = backend_readers \cup {w}
    /\ IF EvsetRejected(evset)
       THEN /\ pc' = [pc EXCEPT ![w] = "ret"]
            /\ call' = [call EXCEPT ![w] =
                          [IdleCall EXCEPT !.dev = device_event,
                                           !.evset = evset,
                                           !.idx0 = event_idx,
                                           !.kill0 = kill_evt,
                                           !.ret = HandleEventNotEpollIn]]
       ELSE /\ pc' = [pc EXCEPT ![w] = "lock"]
            /\ call' = [call EXCEPT ![w] =
                          [IdleCall EXCEPT !.dev = device_event,
                                           !.evset = evset,
                                           !.idx0 = event_idx,
                                           !.kill0 = kill_evt]]
    /\ UNCHANGED <<ctor, host, event_idx, thread_lock, vring_lock, rings, source,
                   cfg>>

\* the guard used to clear the event-index flag
HandleEvent_Lock_ClearsFlag(w) ==
    /\ pc[w] = "lock"
    /\ thread_lock = None
    /\ thread_lock' = w
    /\ event_idx' = FALSE
    /\ pc' = [pc EXCEPT ![w] = "match"]
    /\ UNCHANGED <<ctor, host, vring_lock, backend_readers, rings,
                   source, call, cfg>>

\* main.rs:224  let mut thread = self.thread.lock().unwrap();
HandleEvent_Lock(w) ==
    /\ pc[w] = "lock"
    /\ thread_lock = None
    /\ thread_lock' = w
    /\ pc' = [pc EXCEPT ![w] = "match"]
    /\ UNCHANGED <<ctor, host, event_idx, vring_lock, backend_readers, rings,
                   source, call, cfg>>

\* the `_` arm returns with the mutex guard kept alive
HandleEvent_Match_KeepsMutex(w) ==
    /\ pc[w] = "match"
    /\ IF QueueMatched(call[w].dev)
       THEN /\ vring_lock[0] = None
            /\ vring_lock' = [vring_lock EXCEPT ![0] = w]
            /\ call' = [call EXCEPT ![w].mode = event_idx,
                                    ![w].used_any = FALSE,
                                    ![w].passes = 1,
                                    ![w].taken0 = EventsTaken,
                                    ![w].pend0 = sim_inputs]
            /\ pc' = [pc EXCEPT ![w] = "process"]
            /\ UNCHANGED thread_lock
       ELSE /\ call' = [call EXCEPT ![w].ret = HandleEventUnknownEvent]
            /\ pc' = [pc EXCEPT ![w] = "ret"]
            /\ UNCHANGED <<thread_lock, vring_lock>>
    /\ UNCHANGED <<ctor, host, event_idx, backend_readers, rings, source, cfg>>

\* main.rs:225-228 and 241: the match on device_event.  Arm 0 takes the write
\* lock of vrings[0] and reads thread.event_idx; every other value returns
\* HandleEventUnknownEvent, dropping the mutex guard.
HandleEvent_Match(w) ==
    /\ pc[w] = "match"
    /\ IF QueueMatched(call[w].dev)
       THEN /\ vring_lock[0] = None
            /\ vring_lock' = [vring_lock EXCEPT ![0] = w]
            /\ call' = [call EXCEPT ![w].mode = event_idx,
                                    ![w].used_any = FALSE,
                                    ![w].passes = 1,
                                    ![w].taken0 = EventsTaken,
                                    ![w].pend0 = sim_inputs]
            /\ pc' = [pc EXCEPT ![w] = "process"]
            /\ UNCHANGED thread_lock
       ELSE /\ thread_lock' = None
            /\ call' = [call EXCEPT ![w].ret = HandleEventUnknownEvent]
            /\ pc' = [pc EXCEPT ![w] = "ret"]
            /\ UNCHANGED vring_lock
    /\ UNCHANGED <<ctor, host, event_idx, backend_readers, rings, source, cfg>>

\* main.rs:115-118  one iteration of the while-let of process_queue: the
\* iterator hands out the next available chain, which is only counted.
ProcessQueue_Next(w) ==
    /\ pc[w] = "process"
    /\ avail[0] # <<>>
    /\ avail' = [avail EXCEPT ![0] = Tail(@)]
    /\ taken' = [taken EXCEPT ![0] = Append(@, Head(avail[0]))]
    /\ call' = [call EXCEPT ![w].used_any = TRUE,
                            ![w].took = Append(@, Head(avail[0]))]
    /\ UNCHANGED <<ctor, host, event_idx, locks, used, signalled, delivered,
                   submitted, source, pc, cfg>>

\* main.rs:115 and 120  the iterator is empty: the pass is over and
\* process_queue returns used_any.
ProcessQueue_Return(w) ==
    /\ pc[w] = "process"
    /\ avail[0] = <<>>
    /\ pc' = [pc EXCEPT ![w] = "passed"]
    /\ UNCHANGED <<ctor, host, event_idx, locks, rings, source, call, cfg>>

\* the number of passes of a kick is noted up to one more than the chains
\* the guest can submit can account for
CountPass(n) == IF n < MaxChains + 2 THEN n + 1 ELSE n

\* handle_event never makes a second pass
LoopAgain_Never(mode, used_any) == FALSE

\* handle_event in event-index mode makes another pass whatever the last found
LoopAgain_Always(mode, used_any) == mode

\* main.rs:228-237  with event_idx the loop goes on while a pass used a
\* chain; without it there is one pass
LoopAgain(mode, used_any) == mode /\ used_any

\* main.rs:229-239  what follows a pass: another pass, or Ok(false) with the
\* vring and mutex guards dropped.
HandleEvent_AfterPass(w) ==
    /\ pc[w] = "passed"
    /\ IF LoopAgain(call[w].mode, call[w].used_any)
       THEN /\ call' = [call EXCEPT ![w].used_any = FALSE,
                                    ![w].passes = CountPass(@)]
            /\ pc' = [pc EXCEPT ![w] = "process"]
            /\ UNCHANGED <<thread_lock, vring_lock>>
       ELSE /\ call' = [call EXCEPT ![w].ret =
                                       Ok(HandleEventValue(call[w].used_any))]
            /\ pc' = [pc EXCEPT ![w] = "ret"]
            /\ thread_lock' = None
            /\ vring_lock' = [vring_lock EXCEPT ![0] = None]
    /\ UNCHANGED <<ctor, host, event_idx, backend_readers, rings, source, cfg>>

\* The caller has the result in hand and gives up its shared borrow.
HandleEvent_Return(w) ==
    /\ pc[w] = "ret"
    /\ pc' = [pc EXCEPT ![w] = "idle"]
    /\ call' = [call EXCEPT ![w] = IdleCall]
    /\ backend_readers' = backend_readers \ {w}
    /\ UNCHANGED <<ctor, host, event_idx, thread_lock, vring_lock, rings, source,
                   cfg>>

(* --------------------------- control calls ----------------------------- *)

\* A method taking &mut self runs only while no shared borrow is out.
ExclusiveBorrow == backend_readers = {}

\* the flag written without waiting for the kicks in flight
SetEventIdxReady_Unlocked == TRUE

\* main.rs:195-199  &mut self, and the mutex is taken for the assignment
SetEventIdxReady == ExclusiveBorrow /\ thread_lock = None

SetEventIdx(enabled) ==
    /\ SetEventIdxReady
    /\ event_idx' = enabled
    /\ UNCHANGED <<ctor, host, locks, rings, source, pc, call, cfg>>

\* main.rs:201-208  &mut self; the new memory handle _mem is dropped and
\* nothing of the backend changes.  mem_given notes what the caller passed.
UpdateMemory(mem) ==
    /\ ExclusiveBorrow
    /\ mem_given' = mem
    /\ UNCHANGED <<ctor, event_idx, locks, rings, source, pc, call, cfg,
                   offered, kill_evt, main_pc, short>>

\* main.rs:93-98  VhostUserInputThread has no guest-memory field: the handle
\* the backend holds for its workers after any update_memory call
WorkerMemory == None

\* main.rs:16  the bit position imported from virtio_bindings
VIRTIO_F_VERSION_1 == 32

\* main.rs:186  VhostUserVirtioFeatures::PROTOCOL_FEATURES is 0x4000_0000
VHOST_USER_F_PROTOCOL_FEATURES == 30

\* the word 1 << n, as the set of its one-bits
Shl1(n) == {n}

\* main.rs:176-187  the feature word, as the set of its one-bits: the
\* config-select codes are the shift counts
features ==
    Shl1(VIRTIO_F_VERSION_1)
        \cup Shl1(VIRTIO_INPUT_CFG_ID_NAME)
        \cup Shl1(VIRTIO_INPUT_CFG_ID_SERIAL)
        \cup Shl1(VIRTIO_INPUT_CFG_ID_DEVIDS)
        \cup Shl1(VIRTIO_INPUT_CFG_PROP_BITS)
        \cup Shl1(VIRTIO_INPUT_CFG_EV_BITS)
        \cup Shl1(VIRTIO_INPUT_CFG_ABS_INFO)
        \cup {VHOST_USER_F_PROTOCOL_FEATURES}

\* the transport asks for the feature word (&self)
GetFeatures ==
    /\ offered' = offered \cup {features}
    /\ UNCHANGED <<ctor, event_idx, locks, rings, source, pc, call, cfg,
                   mem_given, kill_evt, main_pc, short>>

\* main.rs:368-379  daemon.wait() has returned: main clones kill_evt under
\* the backend read lock and the thread mutex, then writes 1 to it
MainKill ==
    /\ main_pc = "wait"
    /\ thread_lock = None
    /\ kill_evt' = 1
    /\ main_pc' = "exit"
    /\ UNCHANGED <<ctor, event_idx, locks, rings, source, pc, call, cfg,
                   mem_given, offered, short>>

\* main.rs:382  process::exit(0): every thread ends where it is
MainExit ==
    /\ main_pc = "exit"
    /\ main_pc' = "gone"
    /\ UNCHANGED <<ctor, event_idx, locks, rings, source, pc, call, cfg,
                   mem_given, offered, kill_evt, short>>

\* main.rs:245-250  get_config ignores its arguments and the config struct
\* and returns Vec::new()
GetConfigBytes(c, offset, size) == <<>>

\* buf copied byte for byte over the three header fields it covers
SetConfigApply_Raw(c, offset, buf) ==
    LET covers(i) == offset <= i /\ i < offset + Len(buf)
        byte(i) == buf[i - offset + 1]
    IN  [c EXCEPT !.select = IF covers(0) THEN byte(0) ELSE @,
                  !.subsel = IF covers(1) THEN byte(1) ELSE @,
                  !.size   = IF covers(2) THEN byte(2) ELSE @]

\* main.rs:252-267  set_config: the body that would copy buf into the struct
\* is commented out, the struct stays as it was
SetConfigApply(c, offset, buf) == c

\* main.rs:266  set_config returns Ok(()) whatever it is given
SetConfigStatus(offset, buf) == "Ok"

\* get_config takes &self: a shared borrow, like handle_event.
GetConfig(offset, size) ==
    /\ cfg_op' = [op     |-> "get_config",
                  offset |-> offset,
                  len    |-> size,
                  buf    |-> <<>>,
                  bytes  |-> GetConfigBytes(config, offset, size),
                  status |-> "Ok",
                  changed |-> FALSE,
                  again  |-> cfg_reads[<<offset, size>>] # {}]
    /\ cfg_reads' = [cfg_reads EXCEPT ![<<offset, size>>] =
                        @ \cup {GetConfigBytes(config, offset, size)}]
    /\ UNCHANGED <<ctor, host, event_idx, locks, rings, source, pc, call, config,
                   last_write>>

\* the last set_config call had these very arguments
SameWrite(offset, buf) == last_write.offset = offset /\ last_write.buf = buf

\* set_config takes &mut self.  The results recorded for reads are kept
\* while the same write is repeated and dropped when another one is made.
SetConfig(offset, buf) ==
    /\ ExclusiveBorrow
    /\ config' = SetConfigApply(config, offset, buf)
    /\ cfg_op' = [op     |-> "set_config",
                  offset |-> offset,
                  len    |-> Len(buf),
                  buf    |-> buf,
                  bytes  |-> <<>>,
                  status |-> SetConfigStatus(offset, buf),
                  changed |-> SetConfigApply(config, offset, buf) # config,
                  again  |-> SameWrite(offset, buf)]
    /\ last_write' = [offset   |-> offset,
                      buf      |-> buf,
                      repeated |-> SameWrite(offset, buf)]
    /\ cfg_reads' = IF SameWrite(offset, buf)
                    THEN cfg_reads
                    ELSE [a \in ReadArgs |-> {}]
    /\ UNCHANGED <<ctor, host, event_idx, locks, rings, source, pc, call>>

(* ------------------------------- Next ---------------------------------- *)

\* kicks, the guest driver, the input source and the negotiation calls
Next ==
    \/ \E q \in AllQueues : GuestAddChain(q)
    \/ SimInput
    \/ \E w \in Workers, d \in DeviceEvents, e \in Events :
          HandleEvent_Check(w, d, e)
    \/ \E w \in Workers : HandleEvent_Lock(w)
    \/ \E w \in Workers : HandleEvent_Match(w)
    \/ \E w \in Workers : ProcessQueue_Next(w)
    \/ \E w \in Workers : ProcessQueue_Return(w)
    \/ \E w \in Workers : HandleEvent_AfterPass(w)
    \/ \E w \in Workers : HandleEvent_Return(w)
    \/ \E b \in BOOLEAN : SetEventIdx(b)

Spec == Init /\ [][Next]_vars

\* a backend of one queue holding one chain at a time, with one transport
\* thread, and the config-space calls added
CfgInit == Construct(1, 1, {"w1"})

CfgNext ==
    \/ Next
    \/ \E m \in MemHandles : UpdateMemory(m)
    \/ \E a \in ReadArgs : GetConfig(a[1], a[2])
    \/ \E a \in WriteArgs : SetConfig(a[1], a[2])

CfgSpec == CfgInit /\ [][CfgNext]_vars

\* a backend as main builds it but for the queue depth, with one transport
\* thread, from construction to process::exit: memory-table updates, the
\* feature query, chains too short for an event, and the shutdown of main
LifeInit == Construct(1, MaxChains, {"w1"})

LifeNext ==
    \/ /\ main_pc # "gone"
       /\ \/ Next
          \/ \E m \in MemHandles : UpdateMemory(m)
          \/ GetFeatures
          \/ \E q \in AllQueues : GuestAddShortChain(q)
          \/ MainKill
    \/ MainExit

LifeSpec == LifeInit /\ [][LifeNext]_vars

\* the statements of handle_event a thread runs without waiting
Running(w) ==
    \/ HandleEvent_Match(w)
    \/ ProcessQueue_Next(w)
    \/ ProcessQueue_Return(w)
    \/ HandleEvent_AfterPass(w)

\* a one-queue backend kicked by both transport threads, where a thread
\* inside handle_event keeps running and a thread at self.thread.lock() gets
\* the mutex if it is released again and again
LiveInit == Construct(1, MaxChains, Workers)

LiveSpec ==
    /\ LiveInit
    /\ [][Next]_vars
    /\ \A w \in Workers : WF_vars(Running(w)) /\ SF_vars(HandleEvent_Lock(w))

(* ------------------------------- claims -------------------------------- *)

Range(seq) == {seq[i] : i \in 1 .. Len(seq)}

\* a handle_event call of worker w has returned and its result is in hand
Returned(w) == pc[w] = "ret"

Succeeded(w) == Returned(w) /\ call[w].ret \in {Ok(FALSE), Ok(TRUE)}

\* C1: a kick whose notification kind is not EPOLLIN fails with
\* HandleEventNotEpollIn; an EPOLLIN kick whose queue index is not below the
\* queue count fails with HandleEventUnknownEvent; in both cases the call has
\* taken no descriptor chain.
C1_DispatchErrors ==
    \A w \in Workers :
        Returned(w) =>
            /\ call[w].evset # EPOLLIN =>
                  /\ call[w].ret = HandleEventNotEpollIn
                  /\ call[w].took = <<>>
            /\ (call[w].evset = EPOLLIN /\ call[w].dev \notin Queues) =>
                  /\ call[w].ret = HandleEventUnknownEvent
                  /\ call[w].took = <<>>

\* C1 witness: one kick has failed on its notification kind and another on
\* its queue index while a chain was waiting on queue 0.
C1_Witness ==
    /\ avail[0] # <<>>
    /\ \E w \in Workers :
          /\ Returned(w)
          /\ call[w].evset # EPOLLIN
          /\ call[w].ret = HandleEventNotEpollIn
    /\ \E w \in Workers :
          /\ Returned(w)
          /\ call[w].evset = EPOLLIN
          /\ call[w].dev \notin Queues
          /\ call[w].ret = HandleEventUnknownEvent

\* C2: an EPOLLIN kick for any queue index below the queue count succeeds,
\* and every chain it takes comes from that queue.
C2_EveryQueueDispatches ==
    \A w \in Workers :
        (Returned(w) /\ call[w].evset = EPOLLIN /\ call[w].dev \in Queues) =>
            /\ Succeeded(w)
            /\ Range(call[w].took) \subseteq Range(taken[call[w].dev])

\* C3: a drain that took N chains while at least N events were pending has
\* written an event into each of the N chains and has removed exactly N
\* events from the pending ones.
C3_DrainDelivers ==
    \A w \in Workers :
        (Succeeded(w) /\ call[w].pend0 >= Len(call[w].took)) =>
            /\ Range(call[w].took) \subseteq delivered[call[w].dev]
            /\ EventsTaken - call[w].taken0 = Len(call[w].took)

\* C4: when a handle_event call that took chains has returned, every chain
\* it took is in the used ring of its queue.
C4_ConsumedArePublished ==
    \A w \in Workers :
        (Returned(w) /\ call[w].took # <<>>) =>
            Range(call[w].took) \subseteq Range(used[call[w].dev])

\* C5 as stated: a kick that took at least one chain does not return false.
C5_FalseOnlyWhenIdle ==
    \A w \in Workers :
        (Succeeded(w) /\ call[w].took # <<>>) => call[w].ret # Ok(FALSE)

\* C5 as amended: every successful kick returns false, whether or not it
\* took a chain.
C5_SuccessIsFalse ==
    \A w \in Workers : Succeeded(w) => call[w].ret = Ok(FALSE)

\* C5 witness: a kick that took a chain has returned false.
C5_Witness ==
    \E w \in Workers :
        /\ Returned(w)
        /\ call[w].took # <<>>
        /\ call[w].ret = Ok(FALSE)

\* the first bytes of the config layout: select, subsel, size
ConfigHeader(c) == <<c.select, c.subsel, c.size>>

\* C6: get_config(offset, length) within [0, 3 + size) returns exactly
\* length bytes, those of the layout from offset on, and a request that ends
\* past the struct fails.
C6_ReadExact ==
    cfg_op.op = "get_config" =>
        /\ cfg_op.offset + cfg_op.len <= 3 + config.size =>
              /\ Len(cfg_op.bytes) = cfg_op.len
              /\ cfg_op.bytes = SubSeq(ConfigHeader(config), cfg_op.offset + 1,
                                       cfg_op.offset + cfg_op.len)
        /\ cfg_op.offset + cfg_op.len > ConfigSize => cfg_op.status = "EINVAL"

\* C7: set_config(offset, buf) ending past the struct fails with EINVAL and
\* leaves the config struct as it was.
C7_WritePastLayoutFails ==
    (cfg_op.op = "set_config" /\ cfg_op.offset + cfg_op.len > ConfigSize) =>
        /\ cfg_op.status = "EINVAL"
        /\ ~cfg_op.changed

\* the selectors the device names (main.rs:48-53)
KnownSelects ==
    {VIRTIO_INPUT_CFG_ID_NAME, VIRTIO_INPUT_CFG_ID_SERIAL,
     VIRTIO_INPUT_CFG_ID_DEVIDS, VIRTIO_INPUT_CFG_PROP_BITS,
     VIRTIO_INPUT_CFG_EV_BITS, VIRTIO_INPUT_CFG_ABS_INFO}

\* the last config write selected a (select, subsel) pair the device does
\* not name
UnknownSelected ==
    /\ last_write.offset = 0
    /\ Len(last_write.buf) = 2
    /\ last_write.buf[1] \notin KnownSelects

\* C8: after a write selecting a pair outside the capability table, a read
\* of header and payload gives select and subsel as written, size 0 and 128
\* zero bytes.
C8_UnknownSelectReadsZero ==
    (/\ cfg_op.op = "get_config"
     /\ cfg_op.offset = 0
     /\ cfg_op.len = 131
     /\ UnknownSelected) =>
        cfg_op.bytes = <<last_write.buf[1], last_write.buf[2], 0>>
                          \o [i \in 1 .. 128 |-> 0]

\* C9: the size field never exceeds 128, and all reads with the same offset
\* and length made while the selection stays the same (no write, or the same
\* write repeated) return the same bytes, whatever kicks, set_event_idx and
\* update_memory calls run in between.
C9_ReadsStable ==
    /\ config.size <= 128
    /\ \A a \in ReadArgs : Cardinality(cfg_reads[a]) <= 1

\* C9 witness: header and payload are read again, after the same selection
\* was written twice, while a kick is draining queue 0 in event-index mode.
C9_Witness ==
    /\ cfg_op.op = "get_config"
    /\ cfg_op.offset = 0
    /\ cfg_op.len = 131
    /\ cfg_op.again
    /\ last_write.offset = 0
    /\ last_write.repeated
    /\ event_idx
    /\ \E w \in Workers : pc[w] = "process" /\ call[w].took # <<>>

\* C10: from its start to its return a kick sees one value of the
\* event-index flag: the value at its start is the one it reads when it
\* chooses between single pass and loop, and the flag keeps that value until
\* the kick has returned.
C10_FlagStableDuringKick ==
    \A w \in Workers :
        /\ pc[w] \in {"lock", "match"} => call[w].idx0 = event_idx
        /\ (pc[w] \in {"process", "passed"} \/ Succeeded(w)) =>
              /\ call[w].mode = call[w].idx0
              /\ call[w].mode = event_idx

\* C10 witness: a kick drains in loop mode after set_event_idx(true) while
\* another kick waits for the mutex.
C10_Witness ==
    \E w, v \in Workers :
        /\ pc[w] = "process"
        /\ call[w].mode
        /\ call[w].took # <<>>
        /\ pc[v] = "lock"

VIRTIO_RING_F_EVENT_IDX == 29

ImplementedFeatures == {VIRTIO_RING_F_EVENT_IDX}

\* C12: the feature word features() returns holds the VERSION_1 bit, the
\* protocol-features bit, and besides them only bits whose behaviour the
\* backend implements.
C12_OnlyImplementedFeatures ==
    \A word \in offered :
        /\ VIRTIO_F_VERSION_1 \in word
        /\ VHOST_USER_F_PROTOCOL_FEATURES \in word
        /\ word \ {VIRTIO_F_VERSION_1, VHOST_USER_F_PROTOCOL_FEATURES}
              \subseteq ImplementedFeatures

\* main.rs:93-98 and 124-130  neither struct has a field for acked feature
\* bits and the impl has no acked_features: the set the backend has stored
AckedFeatures == {}

\* C13: a kick runs in event-index mode only if the event-index bit is in
\* the acked feature set the backend has stored.
C13_ModeGatedOnAcked ==
    \A w \in Workers :
        (pc[w] \in {"process", "passed"} /\ call[w].mode) =>
            VIRTIO_RING_F_EVENT_IDX \in AckedFeatures

\* C14: a kick that starts after kill_evt was written consumes no chain.
C14_NoDrainAfterKill ==
    \A w \in Workers :
        (pc[w] # "idle" /\ call[w].kill0 > 0) => call[w].took = <<>>

\* C15: in event-index mode every chain that became available on the queue
\* after the last availability check of a pass and before the kick returned
\* was consumed by that kick; without event-index mode the kick made one pass
\* and consumed none of them.
C15_LateChainsConsumed ==
    \A w \in Workers :
        Succeeded(w) =>
            IF call[w].mode
            THEN (call[w].late \cup call[w].missed) \subseteq Range(call[w].took)
            ELSE /\ call[w].passes = 1
                 /\ (call[w].late \cup call[w].missed)
                       \cap Range(call[w].took) = {}

\* C15, amended: in event-index mode the kick returns only after a pass that
\* found no chain, and every chain that became available after the last
\* availability check of a pass that had consumed a chain was consumed by the
\* same kick; without event-index mode the kick made one pass and consumed no
\* chain that arrived after that pass's last check.
C15_LateChainsAfterWork ==
    \A w \in Workers :
        Succeeded(w) =>
            IF call[w].mode
            THEN /\ ~call[w].used_any
                 /\ call[w].late \subseteq Range(call[w].took)
            ELSE /\ call[w].passes = 1
                 /\ (call[w].late \cup call[w].missed)
                       \cap Range(call[w].took) = {}

\* C15 witness: a kick in event-index mode returned after a chain arrived
\* behind a pass that had consumed one.
C15_Witness ==
    \E w \in Workers :
        /\ Succeeded(w)
        /\ call[w].mode
        /\ call[w].late # {}
        /\ call[w].passes > 2

\* no chain is handed out twice: a chain the device took appears once in the
\* taken order of its queue and is no longer available
TakenOnce ==
    \A q \in AllQueues :
        /\ Cardinality(Range(taken[q])) = Len(taken[q])
        /\ Range(taken[q]) \cap Range(avail[q]) = {}

\* C16: every handle_event invocation eventually returns, in single-pass mode
\* and in event-index mode, also when the guest adds chains while it runs,
\* and no chain is consumed twice.
C16_DrainTerminates ==
    /\ []TakenOnce
    /\ \A w \in Workers : (pc[w] # "idle") ~> Returned(w)

\* C16 witness: a kick in event-index mode has returned after taking every
\* chain the guest could submit, one of them added while the kick ran.
C16_Witness ==
    \E w \in Workers :
        /\ Succeeded(w)
        /\ call[w].mode
        /\ Len(call[w].took) = MaxChains
        /\ call[w].late # {}

\* C17: the chains a kick consumed are in the used ring of the queue, in the
\* order the kick consumed them.
C17_UsedInConsumptionOrder ==
    \A w \in Workers :
        Succeeded(w) =>
            \A i, j \in 1 .. Len(call[w].took) :
                i < j =>
                    \E m, n \in 1 .. Len(used[0]) :
                        /\ m < n
                        /\ used[0][m] = call[w].took[i]
                        /\ used[0][n] = call[w].took[j]

\* main.rs:93-98 and 113-121  process_queue looks at no descriptor and the
\* thread keeps no counter: the count of chains found too short so far
Violations == 0

\* C18: when a kick has returned, a chain it took that has no writable
\* segment of 8 bytes holds no event, every other chain it took holds one,
\* and the violation count equals the number of short chains taken.
C18_ShortChainsSkipped ==
    \A w \in threads :
        Succeeded(w) =>
            /\ \A c \in Range(call[w].took) : c \in delivered[0] <=> c \notin short
            /\ Violations = Cardinality(Range(taken[0]) \cap short)

\* a step of some handle_event call, from its entry to its return statement
HandleEventStep ==
    \E w \in Workers :
        \/ \E d \in DeviceEvents, e \in Events : HandleEvent_Check(w, d, e)
        \/ HandleEvent_Lock(w)
        \/ Running(w)

\* C19: no step of handle_event, on the successful path or on either error
\* path, changes the event-index flag, the config register, the queue count
\* or the queue depth; the event-index flag changes in set_event_idx only.
C19_HandleEventFrame ==
    [][/\ HandleEventStep =>
             UNCHANGED <<event_idx, config, num_queues, queue_size>>
       /\ event_idx' # event_idx => \E b \in BOOLEAN : SetEventIdx(b)]_vars

\* C19 witness: with the flag set, one kick has returned the unknown-queue
\* error and another has returned Ok after consuming a chain in loop mode.
C19_Witness ==
    \E w, v \in Workers :
        /\ event_idx
        /\ Returned(w)
        /\ call[w].ret = HandleEventUnknownEvent
        /\ Succeeded(v)
        /\ call[v].mode
        /\ call[v].took # <<>>

\* the kicks inside the queue-processing section
InSection == {w \in Workers : pc[w] \in {"process", "passed"}}

\* the mutex is taken before the vring write lock, both are given back on
\* every return path, the holder of the mutex is never blocked, and at most
\* one kick is inside the queue-processing section
LockDiscipline ==
    /\ Cardinality(InSection) <= 1
    /\ \A q \in AllQueues :
          vring_lock[q] # None =>
              /\ thread_lock = vring_lock[q]
              /\ vring_lock[q] \in InSection
    /\ \A w \in Workers :
          /\ pc[w] \in {"idle", "lock", "ret"} =>
                /\ thread_lock # w
                /\ \A q \in AllQueues : vring_lock[q] # w
          /\ thread_lock = w => ENABLED Running(w)

\* C20: handle_event takes the thread mutex before the vring write lock and
\* gives both back on every return path, the unknown-queue one included; at
\* most one kick is inside the queue-processing section; and a kick waiting
\* for the mutex gets it.
C20_NoDeadlock ==
    /\ []LockDiscipline
    /\ \A w \in Workers : (pc[w] = "lock") ~> (thread_lock = w)

\* C20 witness: a kick for an unknown queue waits for the mutex while the
\* other kick is inside the queue-processing section holding both locks.
C20_Witness ==
    \E w, v \in Workers :
        /\ pc[w] = "lock"
        /\ v \in InSection
        /\ thread_lock = v
        /\ vring_lock[0] = v
        /\ call[w].dev # 0

=============================================================================
